---- MODULE Spec2Model ----
(***************************************************************************)
(* Model of the mapping runtime of graph-node:                             *)
(*   runtime/wasm/src/mapping.rs     spawn_module, ValidModule,             *)
(*                                   MappingContext                         *)
(*   runtime/wasm/src/module/mod.rs  WasmiModule, its handler entry points  *)
(*                                   and the AscHeap arena (raw_new, get)   *)
(*                                                                         *)
(* Requests are identified by the order in which they were sent (1, 2, ..) *)
(* The content of a request (trigger, handler name, context) is not read   *)
(* by anything while it is queued, so it is drawn when the worker          *)
(* destructures the request.                                               *)
(***************************************************************************)
EXTENDS Integers, Sequences, FiniteSets, TLC

\* ------------------------------------------------------------------ bounds
NumSenders == 1          \* Sender handles held by the producers
MaxRequests == 3         \* requests sent in the worker specification
ExtraRequests == 2       \* requests sent beyond the channel's capacity
MaxImports == 3          \* length of a module's import list
MaxLen == 2              \* length of a byte slice handed to raw_new
MaxByte == 1             \* byte values are 0..MaxByte
MaxObjects == 2          \* raw_new calls while a payload is encoded
MaxPayloadLen == 1       \* length of one encoded payload object
MaxWrites == 1           \* store writes of one handler
MaxHeapCalls == 3        \* raw_new calls in the heap specification
MaxCallbacks == 2        \* JSON objects of the file ipfs.map streams
MemoryLen == 65536       \* length of the guest's linear memory

\* ------------------------------------------------------- program constants
ChannelBuffer == 100     \* mpsc::channel(100)
MIN_ARENA_SIZE == 10000  \* static MIN_ARENA_SIZE: i32 = 10_000

\* ---------------------------------------------------------------- domains
Senders == 1..NumSenders
Byte == 0..MaxByte
ImportNames == {"env", "index", "other"}
TriggerKinds == {"Log", "Call", "Block"}
HandlerNames == {"handleEvent", "notExported", "wrongType"}
\* the guest's exports that are functions of one i32 argument
Exports == {"handleEvent"}
\* what the guest's memory.allocate can hand back: a trap or a pointer
AllocPtrs == {0, 16, 20000}
AllocResults == [trap : {FALSE}, ptr : AllocPtrs] \cup {[trap |-> TRUE, ptr |-> 0]}

RECURSIVE SeqsUpTo(_, _)
SeqsUpTo(S, n) ==
    IF n = 0 THEN {<<>>}
    ELSE LET shorter == SeqsUpTo(S, n - 1)
         IN shorter \cup {Append(s, x) : s \in {t \in shorter : Len(t) = n - 1}, x \in S}

VARIABLES
    queue,          \* requests buffered in the mpsc channel, oldest first
    parked,         \* senders parked by the channel, oldest first
    senders,        \* live Sender handles
    receiver_open,  \* mapping_request_receiver has not been dropped
    sent,           \* number of requests accepted by the channel so far
    budget,         \* requests the producers may still send
    send_result,    \* outcome of the most recent send: none, ok, closed
    worker,         \* position of the worker thread
    raw_module,     \* the module binary spawn_module was given
    host_exports,   \* the HostExports every context of the host points to
    valid_module,   \* the ValidModule of the worker
    request,        \* the MappingRequest the worker is processing
    phase,          \* per-request state of `request`
    entry,          \* the handler entry point that is executing
    host_call,      \* the Asc type and the result of the latest host-side call
    module,         \* the WasmiModule built for `request`
    shared_module,  \* content of the Rc<RefCell<Option<WasmiModule>>>
    borrows,        \* RefMut guards of that cell that are alive
    result,         \* Result<BlockState> of the handler entry point
    reply_sent,     \* requests on whose reply channel send was called
    replied,        \* requests whose response reached the producer
    encoded,        \* raw_new calls made for the current payload
    heap_call,      \* the most recent raw_new / get call and its outcome
    arena_log       \* what raw_new has issued and requested on `module`

vars == <<queue, parked, senders, receiver_open, sent, budget, send_result,
          worker, raw_module, host_exports, valid_module, request, phase, entry,
          host_call, module,
          shared_module, borrows, result, reply_sent, replied, encoded, heap_call,
          arena_log>>

chan_vars == <<queue, parked, senders, receiver_open, sent, budget, send_result>>
req_vars == <<request, phase, entry, host_call, module, shared_module, borrows, result, encoded,
              heap_call,
              arena_log>>
hist_vars == <<reply_sent, replied>>

ByteSeqs == SeqsUpTo(Byte, MaxLen)

\* ---------------------------------------------------------------- ValidModule
\* variant: repeated elements are kept
dedup_nothing(v) == v

\* Vec::dedup: removes consecutive repeated elements
RECURSIVE dedup(_)
dedup(v) ==
    IF Len(v) <= 1 THEN v
    ELSE IF v[1] = v[2] THEN dedup(Tail(v))
         ELSE <<v[1]>> \o dedup(Tail(v))

\* imports().map(|import| import.module()).filter(|module| *module != "env")
imported_modules(imports) == SelectSeq(imports, LAMBDA name : name # "env")

\* ValidModule::new: Err when the binary does not parse or when the import
\* list, without "env" and deduplicated, does not have exactly one element
ValidModule_new(binary) ==
    IF ~binary.parses
    THEN [ok |-> FALSE, user_module |-> "none"]
    ELSE LET names == dedup(imported_modules(binary.imports))
         IN IF Len(names) = 1
            THEN [ok |-> TRUE, user_module |-> names[1]]
            ELSE [ok |-> FALSE, user_module |-> "none"]

RawModules == [parses : BOOLEAN, imports : SeqsUpTo(ImportNames, MaxImports)]
NoValidModule == [ok |-> FALSE, user_module |-> "none"]

\* a module that parses and imports from "env" and from "index"
IndexModule == [parses |-> TRUE, imports |-> <<"env", "index">>]

\* -------------------------------------------------------------- MappingContext
\* BlockState::new(store, Default::default()): nothing pending on `store`
BlockState_new(store) ==
    [store |-> store, entity_cache |-> <<>>, created_data_sources |-> <<>>]

EmptyBlockState == BlockState_new("store")

\* semver::Version without pre-release: major, minor, patch, compared in order
Version_new(major, minor, patch) == <<major, minor, patch>>
Version_ge(a, b) ==
    \/ a[1] > b[1]
    \/ a[1] = b[1] /\ a[2] > b[2]
    \/ a[1] = b[1] /\ a[2] = b[2] /\ a[3] >= b[3]

\* the api versions of the manifests: below, at and above each boundary
ApiVersions == {<<0, 0, 1>>, <<0, 0, 2>>, <<0, 0, 3>>, <<0, 0, 4>>, <<0, 1, 0>>}
HostExports == [api_version : ApiVersions]

\* the context a request carries: owned by request `id`, with the BlockState
\* accumulated so far for the block (nothing pending in this model)
MappingContext(id) ==
    [owner |-> id, logger |-> "logger", host_exports |-> host_exports,
     block |-> "block", state |-> EmptyBlockState, proof_of_indexing |-> "poi"]

\* variant: the derived context keeps the pending BlockState
derive_with_block_state(ctx) == ctx

\* MappingContext::derive_with_empty_block_state: every field is cloned, the
\* state is a new BlockState on the store of the old one
derive_with_empty_block_state(ctx) ==
    [owner |-> ctx.owner,
     logger |-> ctx.logger,
     host_exports |-> ctx.host_exports,
     block |-> ctx.block,
     state |-> BlockState_new(ctx.state.store),
     proof_of_indexing |-> ctx.proof_of_indexing]

NoRequest == [id |-> 0, trigger |-> "none", handler |-> "none", ctx |-> MappingContext(0)]

\* ------------------------------------------------------------------ AscHeap
\* guest linear memory: the non-zero bytes, by address; every other byte of
\* 0..MemoryLen-1 is zero
ZeroMemory == [a \in {} |-> 0]

ReadByte(memory, a) == IF a \in DOMAIN memory THEN memory[a] ELSE 0

\* memory[start..end].copy_from_slice(bytes): the range is checked against
\* the memory, then the lengths of the two slices are compared
copy_from_slice(memory, start, end, bytes) ==
    IF start > end \/ end > MemoryLen \/ end - start # Len(bytes)
    THEN [panic |-> TRUE, memory |-> memory]
    ELSE LET written == {a \in start..(end - 1) : bytes[a - start + 1] # 0}
             kept == {a \in DOMAIN memory : a < start \/ a >= end}
         IN [panic |-> FALSE,
             memory |-> [a \in kept \cup written |->
                            IF a \in written THEN bytes[a - start + 1] ELSE memory[a]]]

Max(a, b) == IF a >= b THEN a ELSE b

\* variant: the copy always goes to the start of the memory
raw_new_range_at_zero(ptr, len) == [start |-> 0, end |-> len]

\* the range raw_new copies into: `ptr..bytes.len()`
raw_new_range(ptr, len) == [start |-> ptr, end |-> len]

\* variant: no call takes a new arena
needs_new_arena_never(size, arena_free_size) == FALSE

\* variant: every call takes a new arena
needs_new_arena_always(size, arena_free_size) == TRUE

\* `if size > self.arena_free_size`: the arena has no room for the bytes
needs_new_arena(size, arena_free_size) == size > arena_free_size

\* `size.max(MIN_ARENA_SIZE)`: the size asked of memory.allocate
new_arena_size(size) == Max(size, MIN_ARENA_SIZE)

\* variant: the bytes handed out are not taken off the free size
bump_arena_start_only(start, free, size) ==
    [arena_start_ptr |-> start + size, arena_free_size |-> free]

\* self.arena_start_ptr += size; self.arena_free_size -= size
bump_arena(start, free, size) ==
    [arena_start_ptr |-> start + size, arena_free_size |-> free - size]

\* AscHeap::raw_new.  `alloc` is what memory.allocate returns if it is called.
\* If the call panics, the instance is lost with the thread.
raw_new(m, bytes, alloc) ==
    LET size == Len(bytes)
        refill == needs_new_arena(size, m.arena_free_size)
        arena_size == new_arena_size(size)
        start == IF refill THEN alloc.ptr ELSE m.arena_start_ptr
        free == IF refill THEN arena_size ELSE m.arena_free_size
        range == raw_new_range(start, size)
        copy == copy_from_slice(m.memory, range.start, range.end, bytes)
    IN IF refill /\ alloc.trap
       THEN [panic |-> TRUE, module |-> m, ptr |-> 0,
             allocated |-> TRUE, arena_size |-> arena_size]
       ELSE IF copy.panic
       THEN [panic |-> TRUE,
             module |-> [m EXCEPT !.arena_start_ptr = start, !.arena_free_size = free],
             ptr |-> start, allocated |-> refill, arena_size |-> arena_size]
       ELSE [panic |-> FALSE,
             module |-> [m EXCEPT !.arena_start_ptr =
                                      bump_arena(start, free, size).arena_start_ptr,
                                  !.arena_free_size =
                                      bump_arena(start, free, size).arena_free_size,
                                  !.memory = copy.memory],
             ptr |-> start, allocated |-> refill, arena_size |-> arena_size]

\* AscHeap::get: memory[offset..offset + size].to_vec()
get(m, offset, size) ==
    IF offset + size > MemoryLen
    THEN [panic |-> TRUE, bytes |-> <<>>]
    ELSE [panic |-> FALSE, bytes |-> [i \in 1..size |-> ReadByte(m.memory, offset + i - 1)]]

NoHeapCall == [op |-> "none", bytes |-> <<>>, ptr |-> 0, panic |-> FALSE,
               allocated |-> FALSE, arena_size |-> 0, alloc_trap |-> FALSE]

\* record of a raw_new call: its argument, what it asked of memory.allocate
\* and what it returned
RawNewCall(bytes, alloc, r) ==
    [op |-> "raw_new", bytes |-> bytes, ptr |-> r.ptr, panic |-> r.panic,
     allocated |-> r.allocated, arena_size |-> r.arena_size,
     alloc_trap |-> r.allocated /\ alloc.trap]

\* what raw_new has done on one instance: the regions it returned, the
\* arenas it obtained from memory.allocate, and the free bytes of the arenas
\* it left behind
NoArenaLog == [regions |-> <<>>, slabs |-> <<>>, abandoned |-> 0]

\* the log after a raw_new call that returned
arena_log_after(log, m, bytes, alloc, r) ==
    [regions |-> Append(log.regions, [ptr |-> r.ptr, len |-> Len(bytes)]),
     slabs |-> IF r.allocated
               THEN Append(log.slabs, [ptr |-> alloc.ptr, size |-> r.arena_size])
               ELSE log.slabs,
     abandoned |-> IF r.allocated
                   THEN log.abandoned + m.arena_free_size
                   ELSE log.abandoned]

\* record of a get call: offset, size and the bytes it returned
GetCall(offset, size, r) ==
    [op |-> "get", bytes |-> r.bytes, ptr |-> offset, panic |-> r.panic,
     allocated |-> FALSE, arena_size |-> size, alloc_trap |-> FALSE]

\* ------------------------------------------------------------------ WasmiModule
\* variant: the instance starts with an arena it has not requested
new_arena_presized == [arena_start_ptr |-> 0, arena_free_size |-> MIN_ARENA_SIZE]

\* the arena fields of a new instance
new_arena == [arena_start_ptr |-> 0, arena_free_size |-> 0]

\* WasmiModule::from_valid_module_with_ctx, when linking and instantiation
\* succeed: a WasmiModule bound to ctx over the memory of the new instance
from_valid_module_with_ctx(ctx) ==
    [live |-> TRUE, ctx |-> ctx, memory |-> ZeroMemory,
     arena_start_ptr |-> new_arena.arena_start_ptr,
     arena_free_size |-> new_arena.arena_free_size]

NoModule == [live |-> FALSE, ctx |-> MappingContext(0), memory |-> ZeroMemory,
             arena_start_ptr |-> 0, arena_free_size |-> 0]

\* outcomes of from_valid_module_with_ctx
InstantiateOutcomes ==
    {"ok", "link_error", "instantiate_error", "no_memory", "no_memory_allocate",
     "start_calls_import"}

\* the outcomes that leave from_valid_module_with_ctx with `?`
InstantiateErrors == {"link_error", "instantiate_error", "no_memory", "no_memory_allocate"}

\* variant: the cell holds an instance before the module is instantiated
shared_module_new_filled == "Some"

\* the cell the host imports close over, as it is created:
\* Rc::new(RefCell::new(None))
shared_module_new == "None"

\* the functions from_valid_module_with_ctx defines on the linker: "env.abort"
\* and, in the user namespace, these names
linked_imports ==
    {"env.abort", "store.set", "store.get", "ethereum.call", "store.remove",
     "typeConversion.bytesToString", "typeConversion.bytesToHex",
     "typeConversion.bigIntToString", "typeConversion.bigIntToHex",
     "typeConversion.stringToH160",
     "json.fromBytes", "json.try_FromBytes", "json.toI64", "json.toU64",
     "json.toF64", "json.toBigInt",
     "ipfs.cat", "ipfs.map", "crypto.keccak256",
     "bigInt.plus", "bigInt.minus", "bigInt.times", "bigInt.divedBy"}

\* the cell the host imports close over, as from_valid_module_with_ctx leaves it
shared_module_after_instantiate == "None"

NoResult == [ok |-> FALSE, error |-> "none", state |-> EmptyBlockState]
Ok(state) == [ok |-> TRUE, error |-> "none", state |-> state]
Err(error) == [ok |-> FALSE, error |-> error, state |-> EmptyBlockState]

\* the Asc type a handler entry point encodes its payload as
payload_type(entry_point, api_version) ==
    CASE entry_point = "handle_ethereum_log" ->
            IF Version_ge(api_version, Version_new(0, 0, 2))
            THEN "AscEthereumEvent<AscEthereumTransaction_0_0_2>"
            ELSE "AscEthereumEvent<AscEthereumTransaction>"
      [] entry_point = "handle_ethereum_call" ->
            IF Version_ge(api_version, Version_new(0, 0, 3))
            THEN "AscEthereumCall_0_0_3"
            ELSE "AscEthereumCall"
      [] entry_point = "handle_ethereum_block" -> "AscEthereumBlock"

\* the Asc type the ethereum.call import decodes its argument as
unresolved_call_type(api_version) ==
    IF Version_ge(api_version, Version_new(0, 0, 4))
    THEN "AscUnresolvedContractCall_0_0_4"
    ELSE "AscUnresolvedContractCall"

\* record of a host-side call: who called, the Asc type it encoded or
\* decoded, and what it returned
HostCall(name, asc_type, ret) == [name |-> name, asc_type |-> asc_type, ret |-> ret]
NoHostCall == HostCall("none", "none", "none")

\* invoke_handler: get_func(handler), get1(), then the call into the guest
handler_lookup(handler) ==
    IF handler \in Exports THEN "found"
    ELSE IF handler = "wrongType" THEN "signature"
    ELSE "missing"

\* the objects asc_new writes for a payload: each has at least a header
PayloadBytes == {b \in SeqsUpTo(Byte, MaxPayloadLen) : Len(b) > 0}

\* ------------------------------------------------------------------ Init
\* spawn_module has created the channel and spawned the thread
InitWith(n) ==
    /\ queue = <<>>
    /\ parked = <<>>
    /\ senders = Senders
    /\ receiver_open = TRUE
    /\ sent = 0
    /\ budget = n
    /\ send_result = "none"
    /\ worker = "start"
    /\ raw_module \in RawModules
    /\ host_exports \in HostExports
    /\ valid_module = NoValidModule
    /\ request = NoRequest
    /\ phase = "None"
    /\ entry = "none"
    /\ host_call = NoHostCall
    /\ module = NoModule
    /\ shared_module = "None"
    /\ borrows = 0
    /\ result = NoResult
    /\ reply_sent = {}
    /\ replied = {}
    /\ encoded = 0
    /\ heap_call = NoHeapCall
    /\ arena_log = NoArenaLog

Init == InitWith(MaxRequests)

\* ------------------------------------------------------------------ producers
\* variant: the channel never parks a sender
park_self_never(num_messages) == FALSE

\* the channel parks a sender whose message makes it hold more than `buffer`
park_self(num_messages) == num_messages > ChannelBuffer

\* Sender::send on an open channel: the message is queued; the sender is
\* parked when the channel then holds more than `buffer` messages
Send(s) ==
    /\ s \in senders
    /\ budget > 0
    /\ receiver_open
    /\ \A i \in 1..Len(parked) : parked[i] # s
    /\ sent' = sent + 1
    /\ queue' = Append(queue, sent + 1)
    /\ parked' = IF park_self(Len(queue) + 1) THEN Append(parked, s) ELSE parked
    /\ budget' = budget - 1
    /\ send_result' = "ok"
    /\ UNCHANGED <<senders, receiver_open, worker, raw_module, host_exports, valid_module>>
    /\ UNCHANGED req_vars
    /\ UNCHANGED hist_vars

\* Sender::send after the receiver was dropped
SendClosed(s) ==
    /\ s \in senders
    /\ ~receiver_open
    /\ send_result' = "closed"
    /\ UNCHANGED <<queue, parked, senders, receiver_open, sent, budget, worker, raw_module, host_exports, valid_module>>
    /\ UNCHANGED req_vars
    /\ UNCHANGED hist_vars

\* a producer drops its Sender
DropSender(s) ==
    /\ s \in senders
    /\ senders' = senders \ {s}
    /\ UNCHANGED <<queue, parked, receiver_open, sent, budget, send_result, worker, raw_module, host_exports, valid_module>>
    /\ UNCHANGED req_vars
    /\ UNCHANGED hist_vars

\* ------------------------------------------------------------------ worker
\* what is left of a request once its parts have been moved out of it
Consumed(r) == [NoRequest EXCEPT !.id = r.id]

\* variant: the receiver outlives the thread
ThreadEnds_receiver_kept(how) ==
    /\ worker' = how
    /\ request' = Consumed(request)
    /\ UNCHANGED <<queue, parked, receiver_open, senders, sent, budget, send_result>>

\* the thread ends: its locals are dropped, and with them the receiver and
\* the messages it still holds
ThreadEnds(how) ==
    /\ worker' = how
    /\ request' = Consumed(request)
    /\ receiver_open' = FALSE
    /\ queue' = <<>>
    /\ parked' = <<>>
    /\ UNCHANGED <<senders, sent, budget, send_result>>

\* the worker thread panics while it processes `request`
RequestPanics ==
    /\ module' = NoModule
    /\ arena_log' = NoArenaLog
    /\ ThreadEnds("panicked")
    /\ UNCHANGED <<phase, entry, host_call, result>>

\* ValidModule::new(&raw_module).unwrap()
WorkerValidate ==
    /\ worker = "start"
    /\ LET v == ValidModule_new(raw_module)
       IN IF v.ok
          THEN /\ valid_module' = v
               /\ worker' = "recv"
               /\ UNCHANGED chan_vars
               /\ UNCHANGED request
          ELSE /\ valid_module' = valid_module
               /\ ThreadEnds("panicked")
    /\ UNCHANGED <<raw_module, host_exports>>
    /\ UNCHANGED <<phase, entry, host_call, module, arena_log, shared_module, borrows, result, encoded, heap_call>>
    /\ UNCHANGED hist_vars

\* variant: the stream yields the newest message
dequeue_newest(q) == [message |-> q[Len(q)], rest |-> SubSeq(q, 1, Len(q) - 1)]

\* the stream yields the oldest message of the channel
dequeue(q) == [message |-> Head(q), rest |-> Tail(q)]

\* variant: the stream is polled while the reply is still to be sent
for_each_ready_early == worker \in {"recv", "reply"}

\* for_each polls the stream when the future of the previous request is done
for_each_ready == worker = "recv"

\* variant: the stream does not notice that the senders are gone
stream_ended_never == FALSE

\* variant: the stream ends as soon as every sender is gone
stream_ended_on_drop == senders = {}

\* the stream has ended: nothing is queued and every sender is gone
stream_ended == queue = <<>> /\ senders = {}

\* for_each receives the next request and destructures it
Recv ==
    /\ for_each_ready
    /\ queue # <<>>
    /\ \E trigger \in TriggerKinds, handler \in HandlerNames :
         request' = [id |-> dequeue(queue).message, trigger |-> trigger,
                     handler |-> handler, ctx |-> MappingContext(dequeue(queue).message)]
    /\ queue' = dequeue(queue).rest
    /\ parked' = IF parked = <<>> THEN parked ELSE Tail(parked)
    /\ worker' = "module_init"
    /\ phase' = "Idle"
    /\ entry' = "none"
    /\ host_call' = NoHostCall
    /\ module' = NoModule
    /\ arena_log' = NoArenaLog
    /\ result' = NoResult
    /\ encoded' = 0
    /\ heap_call' = NoHeapCall
    /\ UNCHANGED <<senders, receiver_open, sent, budget, send_result, raw_module, host_exports, valid_module, shared_module, borrows>>
    /\ UNCHANGED hist_vars

\* the stream ends: every sender is gone and nothing is queued
RecvClosed ==
    /\ for_each_ready
    /\ stream_ended
    /\ ThreadEnds("exited_ok")
    /\ UNCHANGED <<raw_module, host_exports, valid_module>>
    /\ UNCHANGED <<phase, entry, host_call, module, arena_log, shared_module, borrows, result, encoded, heap_call>>
    /\ UNCHANGED hist_vars

\* variant: for_each goes on with the next request after an error
module_init_err_skipped ==
    /\ worker' = "recv"
    /\ request' = Consumed(request)
    /\ UNCHANGED chan_vars

\* the `?` on from_valid_module_with_ctx: the error leaves the closure with
\* result_sender still in it, and for_each ends with the error
module_init_err == ThreadEnds("exited_err")

\* WasmInstance::from_valid_module_with_ctx(valid_module, ctx, host_metrics)?
ModuleInit ==
    /\ worker = "module_init"
    /\ \E outcome \in InstantiateOutcomes :
         IF outcome = "ok"
         THEN /\ module' = from_valid_module_with_ctx(request.ctx)
              /\ arena_log' = NoArenaLog
              /\ shared_module' = shared_module_after_instantiate
              /\ borrows' = 0
              /\ phase' = "Instantiated"
              /\ worker' = "dispatch"
              /\ UNCHANGED <<request, entry, host_call, result>>
              /\ UNCHANGED chan_vars
         ELSE IF outcome \in InstantiateErrors
         THEN /\ phase' = "Failed"
              /\ module_init_err
              /\ UNCHANGED <<module, arena_log, shared_module, borrows, entry, host_call, result>>
         \* linker.instantiate runs the start function of the module, and the
         \* start function calls store.set: the closure unwraps the new cell
         ELSE IF shared_module_new = "None"
         THEN /\ shared_module' = shared_module_new
              /\ borrows' = 0
              /\ RequestPanics
         ELSE /\ module' = [from_valid_module_with_ctx(request.ctx) EXCEPT
                                !.ctx.state.entity_cache =
                                    Append(@, [op |-> "set", key |-> "Foo/1", data |-> "x=42"])]
              /\ host_call' = HostCall("store.set", "AscEntity", "void")
              /\ arena_log' = NoArenaLog
              /\ shared_module' = shared_module_after_instantiate
              /\ borrows' = 0
              /\ phase' = "Instantiated"
              /\ worker' = "dispatch"
              /\ UNCHANGED <<request, entry, result>>
              /\ UNCHANGED chan_vars
    /\ UNCHANGED <<raw_module, host_exports, valid_module, encoded, heap_call>>
    /\ UNCHANGED hist_vars

\* variant: every trigger goes to the log handler
dispatch_to_log(trigger) == "handle_ethereum_log"

\* match trigger { Log => handle_ethereum_log, Call => .., Block => .. }
dispatch(trigger) ==
    CASE trigger = "Log" -> "handle_ethereum_log"
      [] trigger = "Call" -> "handle_ethereum_call"
      [] trigger = "Block" -> "handle_ethereum_block"

\* the worker calls the handler entry point of the trigger's variant
Dispatch ==
    /\ worker = "dispatch"
    /\ entry' = dispatch(request.trigger)
    /\ host_call' = HostCall(dispatch(request.trigger),
                            payload_type(dispatch(request.trigger),
                                         module.ctx.host_exports.api_version),
                            "none")
    /\ phase' = "Running"
    /\ worker' = "run_handler"
    /\ UNCHANGED chan_vars
    /\ UNCHANGED <<raw_module, host_exports, valid_module, request, module, arena_log, shared_module, borrows, result, encoded, heap_call>>
    /\ UNCHANGED hist_vars

\* the handler entry point returns `res`, `call` being the last thing the
\* host did for the guest: the instance is dropped with the return
HandlerReturnsAfter(call, res, terminal) ==
    /\ phase' = terminal
    /\ worker' = "reply"
    /\ result' = res
    /\ entry' = "none"
    /\ host_call' = call
    /\ module' = NoModule
    /\ arena_log' = NoArenaLog
    /\ request' = Consumed(request)
    /\ UNCHANGED chan_vars

\* the handler entry point returns `res`: the instance is dropped with it
HandlerReturns(res, terminal) ==
    /\ phase' = terminal
    /\ worker' = "reply"
    /\ result' = res
    /\ entry' = "none"
    /\ host_call' = NoHostCall
    /\ module' = NoModule
    /\ arena_log' = NoArenaLog
    /\ request' = Consumed(request)
    /\ UNCHANGED chan_vars

\* the entry point calls raw_new(bytes); memory.allocate answers `alloc`
CallRawNew(bytes, alloc) ==
    LET r == raw_new(module, bytes, alloc)
    IN /\ heap_call' = RawNewCall(bytes, alloc, r)
       /\ encoded' = encoded + 1
       /\ IF r.panic
          THEN RequestPanics
          ELSE /\ module' = r.module
               /\ arena_log' = arena_log_after(arena_log, module, bytes, alloc, r)
               /\ UNCHANGED <<phase, entry, host_call, worker, request, result>>
               /\ UNCHANGED chan_vars
       /\ UNCHANGED <<raw_module, host_exports, valid_module, shared_module, borrows>>
       /\ UNCHANGED hist_vars

\* handle_ethereum_log / _call / _block: asc_new writes one object of the payload
AscNew ==
    /\ worker = "run_handler"
    /\ encoded < MaxObjects
    /\ \E bytes \in PayloadBytes, alloc \in AllocResults : CallRawNew(bytes, alloc)

\* invoke_handler: the export is looked up and called with the payload
InvokeHandler ==
    /\ worker = "run_handler"
    /\ encoded > 0
    /\ LET found == handler_lookup(request.handler)
       IN IF found = "found"
          THEN /\ worker' = "running"
               /\ UNCHANGED <<phase, entry, host_call, result, module, arena_log, request>>
               /\ UNCHANGED chan_vars
          ELSE HandlerReturns(Err(found), "HandlerMissing")
    /\ UNCHANGED <<raw_module, host_exports, valid_module, shared_module, borrows, encoded, heap_call>>
    /\ UNCHANGED hist_vars

\* a linked host import is entered: borrow_mut(), as_mut().unwrap()
import_enters == shared_module # "None"

\* the guest calls store.set: WasmiModule::store_set through the shared cell
GuestStoreSet ==
    /\ worker = "running"
    /\ Len(module.ctx.state.entity_cache) < MaxWrites
    /\ IF ~import_enters
       THEN RequestPanics
       ELSE \E stored \in BOOLEAN :
              IF stored
              THEN /\ module' = [module EXCEPT !.ctx.state.entity_cache =
                                     Append(@, [op |-> "set", key |-> "Foo/1", data |-> "x=42"])]
                   /\ UNCHANGED arena_log
                   /\ UNCHANGED <<phase, entry, host_call, worker, request, result>>
                   /\ UNCHANGED chan_vars
              ELSE HandlerReturns(Err("trap"), "Trapped")
    /\ UNCHANGED <<raw_module, host_exports, valid_module, shared_module, borrows, encoded, heap_call>>
    /\ UNCHANGED hist_vars

\* a host import returns to the guest, having left the instance as `m`
ImportReturns(m, call) ==
    /\ module' = m
    /\ host_call' = call
    /\ UNCHANGED <<arena_log, phase, entry, worker, request, result>>
    /\ UNCHANGED chan_vars

\* the guest calls store.remove: WasmiModule::store_remove through the cell
GuestStoreRemove ==
    /\ worker = "running"
    /\ Len(module.ctx.state.entity_cache) < MaxWrites
    /\ IF ~import_enters
       THEN RequestPanics
       ELSE ImportReturns([module EXCEPT !.ctx.state.entity_cache =
                              Append(@, [op |-> "remove", key |-> "Foo/1", data |-> "null"])],
                          HostCall("store.remove", "AscString", "void"))
    /\ UNCHANGED <<raw_module, host_exports, valid_module, shared_module, borrows, encoded, heap_call>>
    /\ UNCHANGED hist_vars

\* host_exports.store_get on the BlockState: the latest pending change of the
\* key decides; without one the entity is looked up in the store
RECURSIVE store_get(_, _, _)
store_get(entity_cache, key, in_store) ==
    IF entity_cache = <<>> THEN in_store
    ELSE LET last == entity_cache[Len(entity_cache)]
         IN IF last.key = key THEN last.data
            ELSE store_get(SubSeq(entity_cache, 1, Len(entity_cache) - 1), key, in_store)

\* the guest calls store.get: WasmiModule::store_get through the shared cell
GuestStoreGet ==
    /\ worker = "running"
    /\ IF ~import_enters
       THEN RequestPanics
       ELSE \E in_store \in {"null", "x=1"}, found \in BOOLEAN :
              IF found
              THEN ImportReturns(module,
                                 HostCall("store.get", "AscEntity",
                                          store_get(module.ctx.state.entity_cache,
                                                    "Foo/1", in_store)))
              ELSE HandlerReturns(Err("trap"), "Trapped")
    /\ UNCHANGED <<raw_module, host_exports, valid_module, shared_module, borrows, encoded, heap_call>>
    /\ UNCHANGED hist_vars

\* the pending changes one callback of ipfs.map can leave
CallbackWrites ==
    {<<>>, <<[op |-> "set", key |-> "Foo/1", data |-> "x=42"]>>,
     <<[op |-> "set", key |-> "Foo/1", data |-> "x=7"]>>,
     <<[op |-> "set", key |-> "Bar/1", data |-> "y=1"]>>}

\* the BlockStates HostExports::ipfs_map returns: one per JSON object, each
\* left by a callback that started from the derived, empty context
OutputStates(ctx) ==
    {[derive_with_empty_block_state(ctx).state EXCEPT
         !.entity_cache = writes, !.created_data_sources = sources] :
       writes \in CallbackWrites, sources \in {<<>>, <<"Template">>}}

\* EntityCache::extend: the changes of `other` follow those of `cache`; it
\* fails when both write different values for one key
entity_cache_extend(cache, other) ==
    IF \E i \in 1..Len(cache), j \in 1..Len(other) :
          cache[i].key = other[j].key /\ cache[i].data # other[j].data
    THEN [ok |-> FALSE, cache |-> cache]
    ELSE [ok |-> TRUE, cache |-> cache \o other]

\* the loop of ipfs_map over output_states: `?` leaves it at the first
\* entity cache that does not merge
RECURSIVE merge_output_states(_, _)
merge_output_states(state, output_states) ==
    IF output_states = <<>> THEN [ok |-> TRUE, state |-> state]
    ELSE LET merged == entity_cache_extend(state.entity_cache, output_states[1].entity_cache)
         IN IF ~merged.ok THEN [ok |-> FALSE, state |-> state]
            ELSE merge_output_states(
                     [state EXCEPT !.entity_cache = merged.cache,
                                   !.created_data_sources =
                                       @ \o output_states[1].created_data_sources],
                     Tail(output_states))

\* ipfs.map whose file was fetched or not and whose callbacks left
\* `output_states`: WasmiModule::ipfs_map through the shared cell
GuestIpfsMapOf(fetched, output_states) ==
    /\ worker = "running"
    /\ module.ctx.state.entity_cache = <<>>
    /\ IF ~import_enters
       THEN RequestPanics
       ELSE LET merged == merge_output_states(module.ctx.state, output_states)
            IN IF fetched /\ merged.ok
               THEN ImportReturns([module EXCEPT !.ctx.state = merged.state],
                                  HostCall("ipfs.map", "AscString", "void"))
               ELSE HandlerReturns(Err("trap"), "Trapped")
    /\ UNCHANGED <<raw_module, host_exports, valid_module, shared_module, borrows, encoded, heap_call>>
    /\ UNCHANGED hist_vars

\* the guest calls ipfs.map; the file and the callbacks matter only to a
\* call that gets past the shared cell
GuestIpfsMap ==
    IF import_enters
    THEN \E fetched \in BOOLEAN,
            output_states \in SeqsUpTo(OutputStates(module.ctx), MaxCallbacks) :
            GuestIpfsMapOf(fetched, output_states)
    ELSE GuestIpfsMapOf(TRUE, <<>>)

\* the guest calls ethereum.call: the closure decodes the call descriptor
GuestEthereumCall ==
    /\ worker = "running"
    /\ IF ~import_enters
       THEN RequestPanics
       ELSE \E ret \in {"tokens", "null", "trap"} :
              LET call == HostCall("ethereum.call",
                                   unresolved_call_type(module.ctx.host_exports.api_version),
                                   ret)
              IN IF ret = "trap"
                 THEN HandlerReturnsAfter(call, Err("trap"), "Trapped")
                 ELSE ImportReturns(module, call)
    /\ UNCHANGED <<raw_module, host_exports, valid_module, shared_module, borrows, encoded, heap_call>>
    /\ UNCHANGED hist_vars

\* a host import ends with asc_new(object): the object is written with
\* raw_new and its pointer goes back to the guest
ImportReturnsNew(name, asc_type, value, bytes, alloc) ==
    LET r == raw_new(module, bytes, alloc)
    IN IF r.panic
       THEN RequestPanics
       ELSE /\ module' = r.module
            /\ arena_log' = arena_log_after(arena_log, module, bytes, alloc, r)
            /\ host_call' = HostCall(name, asc_type, [ptr |-> r.ptr, value |-> value])
            /\ UNCHANGED <<phase, entry, worker, request, result>>
            /\ UNCHANGED chan_vars

\* host_exports.ipfs_cat: the bytes of the file, or the error of the fetch
IpfsCatResults ==
    {[ok |-> TRUE, bytes |-> bytes] : bytes \in PayloadBytes}
        \cup {[ok |-> FALSE, bytes |-> <<>>]}

\* ipfs.cat with this outcome of the fetch: WasmiModule::ipfs_cat through the
\* shared cell; the error is logged and null goes back
GuestIpfsCatOf(ipfs_res, alloc) ==
    /\ worker = "running"
    /\ IF ~import_enters
       THEN RequestPanics
       ELSE IF ipfs_res.ok
       THEN ImportReturnsNew("ipfs.cat", "Uint8Array", ipfs_res.bytes, ipfs_res.bytes, alloc)
       ELSE ImportReturns(module, HostCall("ipfs.cat", "Uint8Array",
                                           [ptr |-> 0, value |-> "null"]))
    /\ UNCHANGED <<raw_module, host_exports, valid_module, shared_module, borrows, encoded, heap_call>>
    /\ UNCHANGED hist_vars

\* the guest calls ipfs.cat; the fetch matters only to a call that gets past
\* the shared cell
GuestIpfsCat ==
    IF import_enters
    THEN \E ipfs_res \in IpfsCatResults, alloc \in AllocResults :
            GuestIpfsCatOf(ipfs_res, alloc)
    ELSE GuestIpfsCatOf([ok |-> FALSE, bytes |-> <<>>], [trap |-> FALSE, ptr |-> 0])

\* the byte arrays a guest passes to the json functions, written as text
JsonInputs == {"true", "[1]", "[1", ""}

\* host_exports::json_from_bytes: the value the bytes parse to, or an error
json_from_bytes(bytes) ==
    IF bytes \in {"true", "[1]"}
    THEN [ok |-> TRUE, value |-> bytes]
    ELSE [ok |-> FALSE, value |-> "error"]

\* json.fromBytes: WasmiModule::json_from_bytes through the shared cell; the
\* error of the parser leaves with `?`
GuestJsonFromBytesOf(bytes, object, alloc) ==
    /\ worker = "running"
    /\ IF ~import_enters
       THEN RequestPanics
       ELSE LET parsed == json_from_bytes(bytes)
            IN IF parsed.ok
               THEN ImportReturnsNew("json.fromBytes", "AscEnum", parsed.value, object, alloc)
               ELSE HandlerReturnsAfter(HostCall("json.fromBytes", "AscEnum", "trap"),
                                        Err("trap"), "Trapped")
    /\ UNCHANGED <<raw_module, host_exports, valid_module, shared_module, borrows, encoded, heap_call>>
    /\ UNCHANGED hist_vars

GuestJsonFromBytes ==
    IF import_enters
    THEN \E bytes \in JsonInputs, object \in PayloadBytes, alloc \in AllocResults :
            GuestJsonFromBytesOf(bytes, object, alloc)
    ELSE GuestJsonFromBytesOf("", <<0>>, [trap |-> FALSE, ptr |-> 0])

\* the AscResult json_try_from_bytes builds: the value, or `true` for the
\* error of the parser
json_try_result(parsed) ==
    IF parsed.ok THEN [ok |-> TRUE, value |-> parsed.value]
    ELSE [ok |-> FALSE, error |-> TRUE]

\* the function linked as "json.try_FromBytes": WasmiModule::json_try_from_bytes
\* through the shared cell
GuestJsonTryFromBytesOf(bytes, object, alloc) ==
    /\ worker = "running"
    /\ "json.try_FromBytes" \in linked_imports
    /\ IF ~import_enters
       THEN RequestPanics
       ELSE ImportReturnsNew("json.try_FromBytes", "AscResult",
                             json_try_result(json_from_bytes(bytes)), object, alloc)
    /\ UNCHANGED <<raw_module, host_exports, valid_module, shared_module, borrows, encoded, heap_call>>
    /\ UNCHANGED hist_vars

GuestJsonTryFromBytes ==
    IF import_enters
    THEN \E bytes \in JsonInputs, object \in PayloadBytes, alloc \in AllocResults :
            GuestJsonTryFromBytesOf(bytes, object, alloc)
    ELSE GuestJsonTryFromBytesOf("", <<0>>, [trap |-> FALSE, ptr |-> 0])

\* Option: None and Some(x)
None == <<>>
Some(x) == <<x>>

\* asc_get of a string: the object at `ptr` is read from the memory with get
asc_get_string(m, ptr) == [panic |-> get(m, ptr, 1).panic, value |-> ptr]

\* WasmiModule::abort: the fields of the trap it returns; a null pointer
\* and a line or column of 0 become None
abort(m, message_ptr, file_name_ptr, line_number, column_number) ==
    LET message == asc_get_string(m, message_ptr)
        file_name == asc_get_string(m, file_name_ptr)
    IN [panic |-> \/ message_ptr # 0 /\ message.panic
                  \/ file_name_ptr # 0 /\ file_name.panic,
        trap |-> [message |-> IF message_ptr = 0 THEN None ELSE Some(message.value),
                  file_name |-> IF file_name_ptr = 0 THEN None ELSE Some(file_name.value),
                  line_number |-> IF line_number = 0 THEN None ELSE Some(line_number),
                  column_number |-> IF column_number = 0 THEN None
                                    ELSE Some(column_number)]]

\* the arguments a guest passes to env.abort
AbortPtrs == {0, 16, MemoryLen}
AbortPositions == {0, 3, 10}

\* env.abort with these arguments: WasmiModule::abort through the shared cell
GuestAbortOf(message_ptr, file_name_ptr, line_number, column_number) ==
    /\ worker = "running"
    /\ IF ~import_enters
       THEN RequestPanics
       ELSE LET r == abort(module, message_ptr, file_name_ptr, line_number, column_number)
            IN IF r.panic
               THEN RequestPanics
               ELSE HandlerReturnsAfter(HostCall("env.abort", "AscString", r.trap),
                                        Err("trap"), "Trapped")
    /\ UNCHANGED <<raw_module, host_exports, valid_module, shared_module, borrows, encoded, heap_call>>
    /\ UNCHANGED hist_vars

\* the guest calls env.abort; the arguments matter only to a call that gets
\* past the shared cell
GuestAbort ==
    IF import_enters
    THEN \E message_ptr \in AbortPtrs, file_name_ptr \in AbortPtrs,
            line_number \in AbortPositions, column_number \in AbortPositions :
            GuestAbortOf(message_ptr, file_name_ptr, line_number, column_number)
    ELSE GuestAbortOf(0, 0, 0, 0)

\* the guest traps without calling the host: invoke_handler returns the error
GuestTrap ==
    /\ worker = "running"
    /\ HandlerReturns(Err("trap"), "Trapped")
    /\ UNCHANGED <<raw_module, host_exports, valid_module, shared_module, borrows, encoded, heap_call>>
    /\ UNCHANGED hist_vars

\* the guest handler returns: Ok(self.ctx.state)
GuestReturn ==
    /\ worker = "running"
    /\ HandlerReturns(Ok(module.ctx.state), "Completed")
    /\ UNCHANGED <<raw_module, host_exports, valid_module, shared_module, borrows, encoded, heap_call>>
    /\ UNCHANGED hist_vars

\* result_sender.send((result, ..)): Err when the producer dropped the receiver
\* variant: the outcome of the send is ignored
send_reply_ignored(receiver_alive) == "Ok"

\* result_sender.send(..).map_err(..): Err ends for_each
send_reply(receiver_alive) == IF receiver_alive THEN "Ok" ELSE "Err"

SendReply ==
    /\ worker = "reply"
    /\ reply_sent' = reply_sent \cup {request.id}
    /\ \E receiver_alive \in BOOLEAN :
         IF send_reply(receiver_alive) = "Ok"
         THEN /\ replied' = IF receiver_alive THEN replied \cup {request.id} ELSE replied
              /\ worker' = "recv"
              /\ UNCHANGED request
              /\ UNCHANGED chan_vars
         ELSE /\ UNCHANGED replied
              /\ ThreadEnds("exited_err")
    /\ UNCHANGED <<raw_module, host_exports, valid_module, phase, entry, host_call, module, arena_log, shared_module, borrows, result, encoded, heap_call>>

\* the steps of the worker thread
WorkerNext ==
    \/ WorkerValidate
    \/ Recv
    \/ RecvClosed
    \/ ModuleInit
    \/ Dispatch
    \/ AscNew
    \/ InvokeHandler
    \/ GuestStoreSet
    \/ GuestStoreRemove
    \/ GuestStoreGet
    \/ GuestEthereumCall
    \/ GuestIpfsMap
    \/ GuestIpfsCat
    \/ GuestJsonFromBytes
    \/ GuestJsonTryFromBytes
    \/ GuestAbort
    \/ GuestTrap
    \/ GuestReturn
    \/ SendReply

Next ==
    \/ \E s \in Senders : Send(s)
    \/ \E s \in Senders : SendClosed(s)
    \/ \E s \in Senders : DropSender(s)
    \/ WorkerNext

Spec == Init /\ [][Next]_vars

\* the worker is an OS thread of its own: it keeps being scheduled
LiveSpec == Init /\ [][Next]_vars /\ WF_vars(WorkerNext)

\* the same program with enough sends to fill the channel
ChanInit ==
    /\ InitWith(ChannelBuffer + NumSenders + ExtraRequests)
    /\ raw_module = IndexModule
    /\ host_exports = [api_version |-> <<0, 0, 4>>]
ChanSpec == ChanInit /\ [][Next]_vars

\* ------------------------------------------------------------------ the heap alone
\* an instance at the start of a handler entry point, on which raw_new and
\* get are called as asc_new and asc_get call them
HeapInit ==
    /\ queue = <<>>
    /\ parked = <<>>
    /\ senders = Senders
    /\ receiver_open = TRUE
    /\ sent = 1
    /\ budget = 0
    /\ send_result = "ok"
    /\ worker = "run_handler"
    /\ raw_module = IndexModule
    /\ host_exports = [api_version |-> <<0, 0, 4>>]
    /\ valid_module = ValidModule_new(IndexModule)
    /\ request = [id |-> 1, trigger |-> "Block", handler |-> "handleEvent",
                  ctx |-> MappingContext(1)]
    /\ phase = "Running"
    /\ entry = "handle_ethereum_block"
    /\ host_call = HostCall("handle_ethereum_block", "AscEthereumBlock", "none")
    /\ module = from_valid_module_with_ctx(MappingContext(1))
    /\ shared_module = shared_module_after_instantiate
    /\ borrows = 0
    /\ result = NoResult
    /\ reply_sent = {}
    /\ replied = {}
    /\ encoded = 0
    /\ heap_call = NoHeapCall
    /\ arena_log = NoArenaLog

\* byte slices that do not fit together into one arena
LargeLens == {3000, 8000}
ZeroBytes(n) == [i \in 1..n |-> 0]
HeapBytes == ByteSeqs \cup {ZeroBytes(n) : n \in LargeLens}

HeapRawNew ==
    /\ worker = "run_handler"
    /\ encoded < MaxHeapCalls
    /\ \E bytes \in HeapBytes, alloc \in AllocResults : CallRawNew(bytes, alloc)

GetOffsets == {0, 1, 16, 20000, MemoryLen - 1, MemoryLen}

HeapGet ==
    /\ worker = "run_handler"
    /\ \E offset \in GetOffsets, size \in 0..MaxLen :
         LET r == get(module, offset, size)
         IN /\ heap_call' = GetCall(offset, size, r)
            /\ IF r.panic
               THEN RequestPanics
               ELSE /\ UNCHANGED <<phase, entry, host_call, worker, request, result, module, arena_log>>
                    /\ UNCHANGED chan_vars
    /\ UNCHANGED <<raw_module, host_exports, valid_module, shared_module, borrows, encoded>>
    /\ UNCHANGED hist_vars

HeapNext == HeapRawNew \/ HeapGet

HeapSpec == HeapInit /\ [][HeapNext]_vars

\* ------------------------------------------------------- a context alone
\* the contexts a producer can put in a request: the state may hold what
\* earlier handlers of the block have left
Contexts ==
    {[owner |-> 1, logger |-> logger, host_exports |-> host_exports, block |-> block,
      state |-> [store |-> store, entity_cache |-> writes, created_data_sources |-> sources],
      proof_of_indexing |-> poi] :
        logger \in {"logger", "logger2"}, block \in {"block", "block2"},
        store \in {"store", "store2"}, poi \in {"poi", "poi2"},
        writes \in {<<>>, <<[op |-> "set", key |-> "Foo/1", data |-> "x=42"]>>},
        sources \in {<<>>, <<"Template">>}}

\* an instance bound to one of these contexts, its handler running
CtxInit ==
    /\ queue = <<>>
    /\ parked = <<>>
    /\ senders = Senders
    /\ receiver_open = TRUE
    /\ sent = 1
    /\ budget = 0
    /\ send_result = "ok"
    /\ worker = "running"
    /\ raw_module = IndexModule
    /\ host_exports \in HostExports
    /\ valid_module = ValidModule_new(IndexModule)
    /\ \E ctx \in Contexts :
          /\ request = [id |-> 1, trigger |-> "Block", handler |-> "handleEvent", ctx |-> ctx]
          /\ module = from_valid_module_with_ctx(ctx)
    /\ phase = "Running"
    /\ entry = "handle_ethereum_block"
    /\ host_call = HostCall("handle_ethereum_block", "AscEthereumBlock", "none")
    /\ shared_module = shared_module_after_instantiate
    /\ borrows = 0
    /\ result = NoResult
    /\ reply_sent = {}
    /\ replied = {}
    /\ encoded = 1
    /\ heap_call = NoHeapCall
    /\ arena_log = NoArenaLog

\* the host derives the context of a callback from the context of the instance
Derive ==
    /\ worker = "running"
    /\ host_call' = HostCall("derive_with_empty_block_state", "none",
                            derive_with_empty_block_state(module.ctx))
    /\ UNCHANGED <<request, phase, entry, module, shared_module, borrows, result, encoded,
                   heap_call, arena_log>>
    /\ UNCHANGED <<worker, raw_module, host_exports, valid_module>>
    /\ UNCHANGED chan_vars
    /\ UNCHANGED hist_vars

CtxNext == Derive

CtxSpec == CtxInit /\ [][CtxNext]_vars

\* ---------------------------------------------------- the shared cell alone
\* The calls between host and guest, one step each: a linked closure takes
\* its guard of the cell, then unwraps the cell and runs the method; raw_new
\* calls the guest's memory.allocate, which returns or calls env.abort.

\* the host imports the guest calls here
CellImports == {"env.abort", "store.set", "store.get", "ipfs.cat"}

\* of these, the ones whose method ends with asc_new of an object
ImportsWithAscNew == {"store.get", "ipfs.cat"}

\* the objects such a method writes: an entity, or a file that fills an arena
ImportObjects == PayloadBytes \cup {ZeroBytes(MIN_ARENA_SIZE)}

\* an instance whose entry point is about to encode the payload
CellInit ==
    /\ queue = <<>>
    /\ parked = <<>>
    /\ senders = Senders
    /\ receiver_open = TRUE
    /\ sent = 1
    /\ budget = 0
    /\ send_result = "ok"
    /\ worker = "run_handler"
    /\ raw_module = IndexModule
    /\ host_exports \in HostExports
    /\ valid_module = ValidModule_new(IndexModule)
    /\ \E ctx \in Contexts :
          /\ request = [id |-> 1, trigger |-> "Block", handler |-> "handleEvent", ctx |-> ctx]
          /\ module = from_valid_module_with_ctx(ctx)
    /\ phase = "Running"
    /\ entry = "handle_ethereum_block"
    /\ host_call = HostCall("handle_ethereum_block", "AscEthereumBlock", "none")
    /\ shared_module = shared_module_after_instantiate
    /\ borrows = 0
    /\ result = NoResult
    /\ reply_sent = {}
    /\ replied = {}
    /\ encoded = 0
    /\ heap_call = NoHeapCall
    /\ arena_log = NoArenaLog

\* raw_new is inside (self.memory_allocate)(arena_size) for these bytes
PendingAllocate(bytes) == [NoHeapCall EXCEPT !.op = "memory.allocate", !.bytes = bytes]

\* RefCell::borrow_mut: a guard, or a panic while another guard is alive
borrow_mut(guards) ==
    IF guards = 0 THEN [panic |-> FALSE, borrows |-> 1]
    ELSE [panic |-> TRUE, borrows |-> guards]

\* a panic unwinds the worker thread: the guards of the cell are dropped
\* with the instance
CellPanics ==
    /\ RequestPanics
    /\ borrows' = 0

\* raw_new has the bytes in the arena and returns to its caller: the entry
\* point when no guard is alive, else the method of the host import
RawNewReturns(r, bytes, alloc) ==
    /\ module' = r.module
    /\ arena_log' = arena_log_after(arena_log, module, bytes, alloc, r)
    /\ IF borrows = 0
       THEN /\ worker' = "run_handler"
            /\ UNCHANGED <<host_call, borrows>>
       ELSE /\ worker' = "running"
            /\ borrows' = 0
            /\ host_call' = HostCall(host_call.name, host_call.asc_type, "object")
    /\ UNCHANGED <<phase, entry, request, result>>
    /\ UNCHANGED chan_vars

\* raw_new for `bytes`, up to its call of memory.allocate if it makes one
CellRawNew(bytes) ==
    IF needs_new_arena(Len(bytes), module.arena_free_size)
    THEN /\ worker' = "allocating"
         /\ heap_call' = PendingAllocate(bytes)
         /\ UNCHANGED <<module, arena_log, request, phase, entry, host_call, result, borrows>>
         /\ UNCHANGED chan_vars
    ELSE LET alloc == [trap |-> FALSE, ptr |-> 0]
             r == raw_new(module, bytes, alloc)
         IN /\ heap_call' = RawNewCall(bytes, alloc, r)
            /\ IF r.panic THEN CellPanics ELSE RawNewReturns(r, bytes, alloc)

\* the entry point writes one object of the payload with asc_new
CellAscNew ==
    /\ worker = "run_handler"
    /\ encoded < MaxObjects
    /\ encoded' = encoded + 1
    /\ \E bytes \in PayloadBytes : CellRawNew(bytes)
    /\ UNCHANGED <<raw_module, host_exports, valid_module, shared_module>>
    /\ UNCHANGED hist_vars

\* the guest's memory.allocate returns to raw_new, with a slab or a trap
AllocatorReturns ==
    /\ worker = "allocating"
    /\ \E alloc \in AllocResults :
         LET bytes == heap_call.bytes
             r == raw_new(module, bytes, alloc)
         IN /\ heap_call' = RawNewCall(bytes, alloc, r)
            /\ IF r.panic THEN CellPanics ELSE RawNewReturns(r, bytes, alloc)
    /\ UNCHANGED <<raw_module, host_exports, valid_module, shared_module, encoded>>
    /\ UNCHANGED hist_vars

\* the guest calls the closure linked as `name`: func_shared_module.borrow_mut()
ImportInvoked(name) ==
    LET guard == borrow_mut(borrows)
    IN /\ IF guard.panic
          THEN /\ module' = NoModule
               /\ arena_log' = NoArenaLog
               /\ ThreadEnds("panicked")
               /\ borrows' = 0
               /\ host_call' = HostCall(name, "none", "BorrowMutError")
               /\ UNCHANGED <<phase, entry, result>>
          ELSE /\ borrows' = guard.borrows
               /\ worker' = "import"
               /\ host_call' = HostCall(name, "none", "none")
               /\ UNCHANGED <<module, arena_log, request, phase, entry, result>>
               /\ UNCHANGED chan_vars
       /\ UNCHANGED <<raw_module, host_exports, valid_module, shared_module, encoded, heap_call>>
       /\ UNCHANGED hist_vars

\* the guest handler calls a host import
GuestCallsImport ==
    /\ worker = "running"
    /\ \E name \in CellImports : ImportInvoked(name)

\* the guest's allocator gives up inside memory.allocate: it calls env.abort
AllocatorAborts ==
    /\ worker = "allocating"
    /\ ImportInvoked("env.abort")

\* the closure goes on under its guard: module.as_mut().unwrap(), then the
\* method; the trap of abort reaches the unwrap of raw_new when the call
\* came from memory.allocate
ImportBody ==
    /\ worker = "import"
    /\ IF ~import_enters
       THEN CellPanics /\ UNCHANGED heap_call
       ELSE IF host_call.name = "env.abort"
       THEN /\ UNCHANGED heap_call
            /\ IF heap_call.op = "memory.allocate"
               THEN CellPanics
               ELSE /\ HandlerReturnsAfter(HostCall("env.abort", "none", "trap"),
                                           Err("trap"), "Trapped")
                    /\ borrows' = 0
       ELSE IF host_call.name \in ImportsWithAscNew
       THEN \E bytes \in ImportObjects : CellRawNew(bytes)
       ELSE /\ worker' = "running"
            /\ borrows' = 0
            /\ host_call' = HostCall(host_call.name, host_call.asc_type, "void")
            /\ UNCHANGED <<module, arena_log, request, phase, entry, result, heap_call>>
            /\ UNCHANGED chan_vars
    /\ UNCHANGED <<raw_module, host_exports, valid_module, shared_module, encoded>>
    /\ UNCHANGED hist_vars

CellNext ==
    \/ CellAscNew
    \/ AllocatorReturns
    \/ AllocatorAborts
    \/ InvokeHandler
    \/ GuestCallsImport
    \/ ImportBody
    \/ GuestReturn

CellSpec == CellInit /\ [][CellNext]_vars

\* ================================================================== claims
InProgress == worker \in {"module_init", "dispatch", "run_handler", "running", "reply"}
Ended == worker \in {"exited_ok", "exited_err", "panicked"}
Terminal == {"Completed", "Trapped", "HandlerMissing", "Failed"}

\* C1: every request the worker has dequeued and is no longer processing had
\* a response sent on its reply channel, whatever the outcome of instance
\* construction and of the handler call.
C1_OneResponsePerRequest ==
    \A id \in 1..request.id : (id = request.id /\ InProgress) \/ id \in reply_sent

\* the step in which a response is sent and lost: the receiver was dropped
ReplyLost == reply_sent' # reply_sent /\ replied' = replied

\* C2 (as stated): when the reply receiver has been dropped, the worker
\* continues with the receive loop and the channel stays open.
C2_ContinuesAfterLostReply ==
    [][ReplyLost => worker' = "recv" /\ receiver_open']_vars

\* C2 (amended): when the reply receiver has been dropped, the worker does
\* not panic but ends its receive loop with an error; the request receiver is
\* dropped with what is queued and no later request is dequeued.
C2_StopsAfterLostReply ==
    [][/\ ReplyLost => worker' = "exited_err" /\ ~receiver_open' /\ queue' = <<>>
       /\ worker = "exited_err" => UNCHANGED <<worker, request, reply_sent, replied>>]_vars

C2_Witness ==
    /\ worker = "exited_err"
    /\ request.id \in reply_sent \ replied
    /\ sent > request.id

\* C3: requests are processed in the order they were sent: while request r
\* is the current one, every request sent before r has had its response
\* sent, and every request still queued was sent after r, in send order.
C3_ProcessedInSendOrder ==
    request.id # 0 =>
        /\ \A id \in 1..(request.id - 1) : id \in reply_sent
        /\ \A i \in 1..Len(queue) : queue[i] > request.id
        /\ \A i, j \in 1..Len(queue) : i < j => queue[i] < queue[j]

C3_Witness ==
    /\ request.id = 2
    /\ worker = "running"
    /\ 1 \in replied
    /\ queue # <<>>

\* C4: processing is strictly sequential: a request is dequeued only when
\* no other request is in progress, that is after the previous request's
\* instance has been dropped and its reply has been sent.
C4_OneRequestAtATime ==
    [][request'.id # request.id =>
          /\ worker = "recv"
          /\ ~module.live
          /\ request.id = 0 \/ request.id \in reply_sent]_vars

C4_Witness ==
    /\ request.id = 2
    /\ worker = "module_init"
    /\ 1 \in reply_sent

\* C5 (as stated): once every producer has dropped its sender, the worker,
\* which is in its receive loop, eventually leaves the loop on channel close
\* and exits cleanly, without an error.
C5_EventuallyExitsCleanly ==
    (senders = {} /\ worker = "recv") ~> (worker = "exited_ok")

\* C5 (amended): once every producer has dropped its sender, the worker
\* thread eventually terminates: cleanly on channel close, or earlier with
\* an error or a panic when a request that was still queued fails.
C5_EventuallyTerminates == (senders = {}) ~> Ended

C5_Witness ==
    /\ senders = {}
    /\ worker = "exited_ok"
    /\ request.id # 0

\* C6: if ValidModule::new fails, the worker thread ends without having
\* processed a request, the request receiver is dropped, and from then on
\* no send is accepted: every later send fails with channel-closed.
C6_InvalidModuleClosesChannel ==
    [][(worker' = "panicked" /\ ~valid_module'.ok) =>
          /\ request'.id = 0
          /\ reply_sent' = {}
          /\ ~receiver_open'
          /\ queue' = <<>>
          /\ worker = "panicked" =>
                /\ sent' = sent
                /\ send_result' \in {send_result, "closed"}]_vars

C6_Witness ==
    /\ worker = "panicked"
    /\ ~valid_module.ok
    /\ send_result = "closed"

\* C7 (as stated): at most 100 requests are queued in every reachable state.
C7_AtMost100Queued == Len(queue) <= ChannelBuffer

\* C7 (amended): at most 100 requests plus one per sender are queued; each
\* request queued beyond the 100 has parked its sender, and a parked sender
\* cannot send until the worker dequeues a request.
C7_QueueBound ==
    /\ Len(queue) <= ChannelBuffer + NumSenders
    /\ Len(parked) = Max(0, Len(queue) - ChannelBuffer)
    /\ \A i \in 1..Len(parked) : ~ENABLED Send(parked[i])

C7_Witness ==
    /\ Len(queue) = ChannelBuffer + 1
    /\ parked # <<>>
    /\ budget > 0

\* C8: each request follows Idle -> Instantiated -> Running ->
\* (Completed | Trapped | HandlerMissing), or Idle -> Failed; the guest
\* handler runs only on a live instance in state Running; a request the
\* worker is done with is in a terminal state, and only a new request
\* follows a terminal state.
C8_RequestStateMachine ==
    [][/\ (request'.id = request.id /\ phase' # phase) =>
             <<phase, phase'>> \in {<<"Idle", "Instantiated">>, <<"Idle", "Failed">>,
                                    <<"Instantiated", "Running">>,
                                    <<"Running", "Completed">>, <<"Running", "Trapped">>,
                                    <<"Running", "HandlerMissing">>}
       /\ request'.id # request.id => phase \in Terminal \cup {"None"} /\ phase' = "Idle"
       /\ worker' = "running" => phase' = "Running" /\ module'.live
       /\ (worker' \in {"recv", "exited_ok", "exited_err", "panicked"} /\ request'.id # 0) =>
             phase' \in Terminal]_vars

\* C9: at the start of every request's handler entry point the instance is
\* a new one: arena_start_ptr = 0, arena_free_size = 0, and it is bound to
\* the context of that request.
C9_FreshInstancePerRequest ==
    (worker = "run_handler" /\ encoded = 0) =>
        /\ module.live
        /\ module.arena_start_ptr = 0
        /\ module.arena_free_size = 0
        /\ module.ctx = MappingContext(request.id)

\* the second request starts its handler after the first one, whose payload
\* took a slab from the guest, was answered
C9_Witness ==
    /\ worker = "run_handler"
    /\ encoded = 0
    /\ request.id = 2
    /\ 1 \in replied

\* C10: whenever memory.allocate does not trap, raw_new(b) returns a pointer
\* p with get(p, len(b)) = b.
C10_RawNewThenGet ==
    (heap_call.op = "raw_new" /\ ~heap_call.alloc_trap) =>
        /\ ~heap_call.panic
        /\ get(module, heap_call.ptr, Len(heap_call.bytes)) =
               [panic |-> FALSE, bytes |-> heap_call.bytes]

\* a step in which raw_new was called
RawNewStep == encoded' = encoded + 1 /\ heap_call'.op = "raw_new"

\* C11: raw_new asks memory.allocate for a slab exactly when the bytes are
\* longer than arena_free_size, of size max(len, 10_000); whenever the
\* allocator does not trap it returns the arena_start_ptr in force after
\* that decision, advances arena_start_ptr by len and decrements
\* arena_free_size by len.
C11_RefillThenBump ==
    [][RawNewStep =>
          LET len == Len(heap_call'.bytes)
              refill == len > module.arena_free_size
              free == IF refill THEN Max(len, MIN_ARENA_SIZE) ELSE module.arena_free_size
          IN /\ heap_call'.allocated = refill
             /\ refill => heap_call'.arena_size = Max(len, MIN_ARENA_SIZE)
             /\ ~heap_call'.alloc_trap =>
                   /\ ~heap_call'.panic
                   /\ ~refill => heap_call'.ptr = module.arena_start_ptr
                   /\ module'.arena_start_ptr = heap_call'.ptr + len
                   /\ module'.arena_free_size = free - len]_vars

\* two half-open intervals [p, p + n) have no address in common
Disjoint(p, n, q, k) == n = 0 \/ k = 0 \/ p + n <= q \/ q + k <= p

\* the slabs memory.allocate handed out are pairwise disjoint
SlabsDisjoint(slabs) ==
    \A i, j \in 1..Len(slabs) :
        i < j => Disjoint(slabs[i].ptr, slabs[i].size, slabs[j].ptr, slabs[j].size)

C13_FreeSizeNonNegative == module.arena_free_size >= 0

\* raw_new has returned from a call that took 8000 bytes from a new arena
C13_Witness ==
    /\ heap_call.op = "raw_new"
    /\ ~heap_call.panic
    /\ heap_call.allocated
    /\ module.arena_free_size = MIN_ARENA_SIZE - 8000

\* C14: the first raw_new call on a new instance asks memory.allocate for a
\* slab whatever the bytes are, and the pointer it returns is not 0.
C14_FirstCallTakesSlab ==
    [][(RawNewStep /\ encoded = 0) =>
          /\ heap_call'.allocated
          /\ ~heap_call'.panic => heap_call'.ptr # 0]_vars

RECURSIVE SlabBytes(_)
SlabBytes(slabs) == IF slabs = <<>> THEN 0 ELSE slabs[1].size + SlabBytes(Tail(slabs))

\* C15: the bytes left unused in the arenas raw_new has abandoned are at
\* most half of the bytes it obtained from memory.allocate.
C15_WasteAtMostHalf == 2 * arena_log.abandoned <= SlabBytes(arena_log.slabs)

\* 3000 bytes were taken from a first arena, whose other 7000 bytes were
\* abandoned for a second arena
C15_Witness ==
    /\ Len(arena_log.slabs) = 2
    /\ arena_log.abandoned = MIN_ARENA_SIZE - 3000
    /\ ~heap_call.panic

\* C16: a get whose range ends beyond the linear memory ends in a trap: the
\* handler entry point returns an error, which is sent as the response.
C16_GetOutOfRangeTraps ==
    (heap_call.op = "get" /\ heap_call.ptr + heap_call.arena_size > MemoryLen) =>
        /\ worker = "reply"
        /\ result = Err("trap")

\* the distinct import module names other than "env"
UserNamespaces(imports) == {imports[i] : i \in 1..Len(imports)} \ {"env"}

\* C17: a module that parses is accepted exactly when its imports name
\* exactly one module other than "env", which becomes the user namespace;
\* it is rejected when they name none or several, in whatever order the
\* imports come and however often a name is repeated.
C17_OneUserNamespace ==
    worker # "start" =>
        /\ valid_module.ok <=>
              (raw_module.parses /\ Cardinality(UserNamespaces(raw_module.imports)) = 1)
        /\ valid_module.ok => UserNamespaces(raw_module.imports) = {valid_module.user_module}

\* a module was accepted whose imports repeat the user namespace with an
\* "env" import in between
C17_Witness ==
    /\ worker = "recv"
    /\ raw_module.imports = <<"index", "env", "index">>
    /\ valid_module = [ok |-> TRUE, user_module |-> "index"]

\* C18: while the entry point of a request whose handler is not exported
\* executes, the guest handler is not entered and the BlockState of the
\* context is not touched; the entry point ends with the ordinary error
\* "function not found", which goes out as the response.
C18_MissingHandlerAnswered ==
    [][(worker = "run_handler" /\ request.handler = "notExported") =>
          /\ module.ctx.state = request.ctx.state
          /\ \/ worker' = "run_handler" /\ module'.ctx.state = module.ctx.state
             \/ worker' = "reply" /\ result' = Err("missing")]_vars

\* C19: a handler that traps, of itself or through env.abort, ends its entry
\* point with an error carrying the trap and no BlockState, whatever it wrote
\* before; the error goes out as the response.
C19_TrapDiscardsWrites ==
    [][(GuestAbort \/ GuestTrap) =>
          /\ worker' = "reply"
          /\ result' = Err("trap")
          /\ result'.state = EmptyBlockState]_vars

\* C20: a store.set call of the handler adds one pending write after those
\* the BlockState of the context holds (or traps), and when the handler
\* returns, the entry point returns Ok with that BlockState: the one the
\* request carried, extended by the handler's writes in call order.
C20_ReturnsExtendedState ==
    [][/\ GuestStoreSet =>
             \/ /\ worker' = "running"
                /\ Len(module'.ctx.state.entity_cache) = Len(module.ctx.state.entity_cache) + 1
                /\ SubSeq(module'.ctx.state.entity_cache, 1, Len(module.ctx.state.entity_cache))
                      = module.ctx.state.entity_cache
                /\ module'.ctx.state.created_data_sources = module.ctx.state.created_data_sources
             \/ worker' = "reply" /\ result' = Err("trap")
       /\ GuestReturn => worker' = "reply" /\ result' = Ok(module.ctx.state)]_vars

\* the handler entry point of each trigger variant
EntryPointOf(trigger) ==
    CASE trigger = "Log" -> "handle_ethereum_log"
      [] trigger = "Call" -> "handle_ethereum_call"
      [] trigger = "Block" -> "handle_ethereum_block"

AtOrAbove(patch) == {v \in ApiVersions : v[1] > 0 \/ v[2] > 0 \/ v[3] >= patch}

\* C22: the log entry point encodes the event with the 0_0_2 transaction
\* exactly when api_version >= 0.0.2, the call entry point encodes
\* AscEthereumCall_0_0_3 exactly when api_version >= 0.0.3, and an
\* ethereum.call of the guest decodes the 0_0_4 call descriptor exactly when
\* api_version >= 0.0.4.
C22_EncodingByApiVersion ==
    [][LET api_version == module.ctx.host_exports.api_version
       IN /\ (entry' # entry /\ entry' = "handle_ethereum_log") =>
                (host_call'.asc_type = "AscEthereumEvent<AscEthereumTransaction_0_0_2>"
                    <=> api_version \in AtOrAbove(2))
          /\ (entry' # entry /\ entry' = "handle_ethereum_call") =>
                (host_call'.asc_type = "AscEthereumCall_0_0_3"
                    <=> api_version \in AtOrAbove(3))
          /\ GuestEthereumCall =>
                /\ host_call'.name = "ethereum.call"
                /\ host_call'.asc_type = "AscUnresolvedContractCall_0_0_4"
                      <=> api_version \in AtOrAbove(4)]_vars

\* C23: from the end of instantiation on, and so whenever the guest of a
\* running handler can call a host import, the shared cell holds the
\* instance.
C23_SharedCellFilled ==
    (module.live /\ worker \in {"dispatch", "run_handler", "running"}) =>
        shared_module # "None"

\* C24: the worker thread does not panic once it processes requests: only a
\* module that fails validation panics it, before any request.
C24_NoPanicFromGuest ==
    worker = "panicked" => (~valid_module.ok /\ request.id = 0)

\* the catalog of host functions a runtime must expose
PublicCatalog ==
    {"env.abort", "store.get", "store.set", "store.remove", "ethereum.call",
     "typeConversion.bytesToString", "typeConversion.bytesToHex",
     "typeConversion.bigIntToString", "typeConversion.bigIntToHex",
     "typeConversion.stringToH160", "typeConversion.bytesToBase58",
     "json.fromBytes", "json.try_fromBytes", "json.toI64", "json.toU64",
     "json.toF64", "json.toBigInt",
     "ipfs.cat", "ipfs.map", "crypto.keccak256",
     "bigInt.plus", "bigInt.minus", "bigInt.times", "bigInt.dividedBy",
     "bigInt.dividedByDecimal", "bigInt.mod", "bigInt.pow",
     "bigDecimal.plus", "bigDecimal.minus", "bigDecimal.times",
     "bigDecimal.dividedBy", "bigDecimal.equals", "bigDecimal.toString",
     "bigDecimal.fromString",
     "dataSource.create", "dataSource.createWithContext", "dataSource.address",
     "dataSource.network", "dataSource.context",
     "ens.nameByHash", "log.log", "arweave.transactionData", "box.profile"}

\* C25: the functions linked into an instance are those of the public
\* catalog, under the catalog's names.
C25_LinkedEqualsCatalog == module.live => linked_imports = PublicCatalog

\* C26: a store.get of the guest returns what the latest store.set or
\* store.remove of the request left for the key: the entity that was set,
\* or null after a removal (or it traps).
C26_ReadYourWrites ==
    [][GuestStoreGet =>
          \/ /\ worker' = "running"
             /\ host_call'.name = "store.get"
             /\ LET cache == module.ctx.state.entity_cache
                    on_key == {i \in 1..Len(cache) : cache[i].key = "Foo/1"}
                IN on_key # {} =>
                      host_call'.ret =
                          cache[CHOOSE i \in on_key : \A j \in on_key : j <= i].data
          \/ worker' = "reply" /\ result' = Err("trap")]_vars

RECURSIVE AllWrites(_)
AllWrites(states) ==
    IF states = <<>> THEN <<>> ELSE states[1].entity_cache \o AllWrites(Tail(states))

RECURSIVE AllSources(_)
AllSources(states) ==
    IF states = <<>> THEN <<>>
    ELSE states[1].created_data_sources \o AllSources(Tail(states))

\* two of the writes give one key different values
Conflicting(writes) ==
    \E i, j \in 1..Len(writes) :
        writes[i].key = writes[j].key /\ writes[i].data # writes[j].data

\* C27: an ipfs.map whose callbacks left output states that do not conflict
\* returns to the guest, and the state of the calling context then holds the
\* writes of all output states and, after its own created data sources,
\* those of the output states, both in the order of the callbacks.
C27_IpfsMapMergesInOrder ==
    [][\A output_states \in SeqsUpTo(OutputStates(module.ctx), MaxCallbacks) :
          (/\ GuestIpfsMapOf(TRUE, output_states)
           /\ ~Conflicting(module.ctx.state.entity_cache \o AllWrites(output_states))) =>
             /\ worker' = "running"
             /\ module'.ctx.state.entity_cache =
                   module.ctx.state.entity_cache \o AllWrites(output_states)
             /\ module'.ctx.state.created_data_sources =
                   module.ctx.state.created_data_sources \o AllSources(output_states)]_vars

\* C28: an ipfs.map whose callbacks left conflicting writes for one key ends
\* the handler with a trap: the entry point returns the error, without a
\* BlockState, and it goes out as the response.
C28_IpfsMapConflictTraps ==
    [][\A output_states \in SeqsUpTo(OutputStates(module.ctx), MaxCallbacks) :
          (/\ GuestIpfsMapOf(TRUE, output_states)
           /\ Conflicting(AllWrites(output_states))) =>
             /\ worker' = "reply"
             /\ result' = Err("trap")]_vars

\* C29: the derived context has the logger, host exports, block and
\* proof-of-indexing sink of the original and an empty BlockState on the
\* same store; the original context is as it was.
C29_DeriveKeepsAllButState ==
    host_call.name = "derive_with_empty_block_state" =>
        LET derived == host_call.ret
            original == request.ctx
        IN /\ derived.logger = original.logger
           /\ derived.host_exports = original.host_exports
           /\ derived.block = original.block
           /\ derived.proof_of_indexing = original.proof_of_indexing
           /\ derived.state.store = original.state.store
           /\ derived.state.entity_cache = <<>>
           /\ derived.state.created_data_sources = <<>>
           /\ module.ctx = original

\* a context with a pending write and a created data source was derived
C29_Witness ==
    /\ host_call.name = "derive_with_empty_block_state"
    /\ module.ctx.state.entity_cache # <<>>
    /\ module.ctx.state.created_data_sources # <<>>
    /\ module.ctx.state.store = "store2"
    /\ module.ctx.logger = "logger2"

\* C30: env.abort ends the handler with a trap whatever its arguments are:
\* a null message or file name and a line or column of 0 are absent from
\* the trap, any other value is carried in it.
C30_AbortAlwaysTraps ==
    [][\A message_ptr \in AbortPtrs, file_name_ptr \in AbortPtrs,
          line_number \in AbortPositions, column_number \in AbortPositions :
          GuestAbortOf(message_ptr, file_name_ptr, line_number, column_number) =>
             /\ worker' = "reply"
             /\ result' = Err("trap")
             /\ host_call'.ret =
                   [message |-> IF message_ptr = 0 THEN <<>> ELSE <<message_ptr>>,
                    file_name |-> IF file_name_ptr = 0 THEN <<>> ELSE <<file_name_ptr>>,
                    line_number |-> IF line_number = 0 THEN <<>> ELSE <<line_number>>,
                    column_number |-> IF column_number = 0 THEN <<>>
                                      ELSE <<column_number>>]]_vars

\* C31: ipfs.cat never traps: a fetch that succeeds returns a pointer to the
\* fetched bytes, one that fails returns the null pointer, and in both cases
\* the guest goes on with the BlockState as it was.
C31_IpfsCatNeverTraps ==
    [][\A ipfs_res \in IpfsCatResults, alloc \in AllocResults :
          GuestIpfsCatOf(ipfs_res, alloc) =>
             /\ worker' = "running"
             /\ host_call'.name = "ipfs.cat"
             /\ host_call'.ret.value = (IF ipfs_res.ok THEN ipfs_res.bytes ELSE "null")
             /\ ipfs_res.ok <=> host_call'.ret.ptr # 0
             /\ module'.ctx.state = module.ctx.state]_vars

\* C32: json.try_fromBytes is linked and never traps: bytes that parse give
\* a result whose ok arm holds the value, bytes that do not parse give a
\* result whose error arm is true; json.fromBytes traps on bytes that do
\* not parse.
C32_JsonTryNeverTraps ==
    /\ [](module.live => "json.try_fromBytes" \in linked_imports)
    /\ [][\A bytes \in JsonInputs, object \in PayloadBytes, alloc \in AllocResults :
             /\ GuestJsonTryFromBytesOf(bytes, object, alloc) =>
                   /\ worker' = "running"
                   /\ host_call'.ret.value =
                         (IF bytes \in {"true", "[1]"}
                          THEN [ok |-> TRUE, value |-> bytes]
                          ELSE [ok |-> FALSE, error |-> TRUE])
             /\ (GuestJsonFromBytesOf(bytes, object, alloc) /\ bytes \in {"[1", ""}) =>
                   /\ worker' = "reply"
                   /\ result' = Err("trap")]_vars

\* C33: no host import invoked while the module is being instantiated reads
\* or changes a mapping context or a BlockState: instantiation leaves no
\* result of a host call, and an instance it produces is bound to the
\* context of the request as the request brought it.
C33_StartCannotUseHost ==
    [][worker = "module_init" =>
          /\ host_call' = NoHostCall
          /\ module'.live => module'.ctx = request.ctx
          /\ ~module'.live => module'.ctx.state = EmptyBlockState]_vars

\* the start function of a module called a host import, which ended the thread
C33_Witness ==
    /\ worker = "panicked"
    /\ phase = "Idle"
    /\ request.id > 0
    /\ shared_module = "None"

\* from_valid_module_with_ctx returns an error for the current request
InstanceBuildFails == worker = "module_init" /\ phase' = "Failed"

\* C34: when the instance of a request cannot be built, the worker ends its
\* receive loop with the error: nothing is sent on the request's reply
\* channel, the thread does not panic, the receiver is dropped with the
\* requests still queued, and from then on no request is dequeued or answered.
C34_FailedBuildEndsWorker ==
    [][/\ InstanceBuildFails =>
             /\ worker' = "exited_err"
             /\ request.id \notin reply_sent'
             /\ ~receiver_open'
             /\ queue' = <<>>
       /\ (worker = "exited_err" /\ phase = "Failed") =>
             UNCHANGED <<worker, request, phase, reply_sent, replied, queue>>]_vars

\* the worker ended on a failed build while a later request had been sent
C34_Witness ==
    /\ worker = "exited_err"
    /\ phase = "Failed"
    /\ request.id \notin reply_sent
    /\ sent > request.id

\* C36: once an instance has requested a slab, arena_start_ptr +
\* arena_free_size is the end address of the slab requested last, and every
\* region raw_new has returned lies inside a slab memory.allocate returned:
\* start of slab <= p and p + len <= end of slab.
C36_ArenaInsideSlab ==
    (module.live /\ arena_log.slabs # <<>>) =>
        LET slabs == arena_log.slabs
            last == slabs[Len(slabs)]
        IN /\ module.arena_start_ptr + module.arena_free_size = last.ptr + last.size
           /\ \A i \in 1..Len(arena_log.regions) :
                 LET region == arena_log.regions[i]
                 IN \E j \in 1..Len(slabs) :
                       /\ slabs[j].ptr <= region.ptr
                       /\ region.ptr + region.len <= slabs[j].ptr + slabs[j].size

\* raw_new has returned for an empty slice and then 3000 bytes of a slab
C36_Witness ==
    /\ module.live
    /\ Len(arena_log.slabs) = 1
    /\ Len(arena_log.regions) = 2
    /\ arena_log.regions[1].len = 0
    /\ arena_log.regions[2].len = 3000
    /\ module.arena_free_size = MIN_ARENA_SIZE - 3000

\* C37 (as stated): once the last sender is dropped, a queued request leaves
\* the queue only by becoming the request the worker processes, and the
\* worker is done with a request only when it has sent its response.
C37_QueuedNeverLost ==
    [][senders = {} =>
          /\ \A i \in 1..Len(queue) :
                \/ \E j \in 1..Len(queue') : queue'[j] = queue[i]
                \/ request'.id = queue[i]
          /\ (InProgress /\ (worker' = "recv" \/ Ended')) =>
                request.id \in reply_sent']_vars

\* C37 (amended): the worker observes the channel as closed only when
\* nothing is queued, and by then it has sent the response of every request
\* sent; once the last sender is dropped the queue changes only by the
\* oldest request becoming the current one, or by the worker ending with an
\* error or a panic, which drops what is queued.
C37_QueuedProcessedBeforeClose ==
    [][/\ (worker # "exited_ok" /\ worker' = "exited_ok") =>
             /\ queue = <<>>
             /\ \A id \in 1..sent : id \in reply_sent
       /\ (senders = {} /\ queue' # queue) =>
             \/ queue' = Tail(queue) /\ request'.id = Head(queue) /\ worker' = "module_init"
             \/ queue' = <<>> /\ worker' \in {"exited_err", "panicked"}]_vars

\* every sender is gone, the second request has been processed and its
\* response is about to be sent, the third is still queued
C37_Witness ==
    /\ senders = {}
    /\ queue = <<3>>
    /\ request.id = 2
    /\ worker = "reply"
    /\ phase = "Completed"
    /\ 1 \in replied

\* the guest calls a linked closure
ImportInvokedStep ==
    /\ worker \in {"running", "allocating"}
    /\ worker' = "import" \/ host_call'.ret = "BorrowMutError"

====
